---- MODULE Spec2Model ----
(***************************************************************************)
(* Participation admission and attempt accounting of the trivia API.       *)
(*                                                                         *)
(* The store is the PostgreSQL schema "trivia" as the ORM models declare   *)
(* it (app/models), read and written by the service functions of           *)
(* app/services/participacion.py.  Each request runs in its own database   *)
(* session (app/db/connection.py get_db): a transaction whose writes are   *)
(* invisible to the other sessions until its commit, and are dropped when  *)
(* the session closes without one.  A request is split at the points where *)
(* it awaits the database, so that requests interleave as they do under    *)
(* the asynchronous runtime.                                               *)
(*                                                                         *)
(* The columns numero_intento and respuestas_abiertas, which the service   *)
(* reads and writes without the ORM model declaring them, are taken from   *)
(* the service's statements; the constraints are the ORM's.                *)
(*                                                                         *)
(* The PL/pgSQL function trivia.gestionar_participacion is loaded from     *)
(* app/sql (init_db.py) and is not part of the Python sources; ProcLeer    *)
(* and ProcInsertar follow the decision table of the design document.      *)
(***************************************************************************)
EXTENDS Integers, Sequences, FiniteSets, TLC

\* ---------------------------------------------------------------- bounds
MaxTime == 2
MaxIntentos == 2
MaxCooldown == 1
MaxId == 3
\* settings.jwt_expiration_minutes, in ticks of the clock
JwtExpiracion == 1
\* the longest tiempo, in seconds, of the attempts a ranking is asked over
MaxTiempoJuego == 2

\* the database sessions (concurrent requests), the people and the groups
Sesiones == {"s1", "s2"}
Cedulas == {"1001", "1002"}
Nombres == {"Ana"}
\* the names a person gives in a run about the user's row
NombresUpsert == {"Ana", "Anita"}
GrupoIds == {1}
\* group ids a request may name: the stored ones and one that does not exist
GrupoIdsPedidos == GrupoIds \cup {9}

\* SQL NULL / Python None for a timestamp or an interval
NULL == -1

\* ------------------------------------------------------------ request data
\* Answers as finalizar_participacion receives them (a list of dicts).
RespuestaOpcion == [id_pregunta |-> 1, tipo_pregunta |-> "opcion_unica",
                    respuesta_seleccionada |-> 2, respuesta_abierta |-> ""]
RespuestaAbierta == [id_pregunta |-> 2, tipo_pregunta |-> "abierta",
                     respuesta_seleccionada |-> 0, respuesta_abierta |-> "texto"]

RespuestaErrada == [id_pregunta |-> 3, tipo_pregunta |-> "opcion_unica",
                    respuesta_seleccionada |-> 1, respuesta_abierta |-> ""]

\* trivia.preguntas: id_pregunta -> (tipo_pregunta, opcion_correcta)
Preguntas ==
    (1 :> [tipo_pregunta |-> "opcion_unica", opcion_correcta |-> 2]) @@
    (2 :> [tipo_pregunta |-> "abierta", opcion_correcta |-> NULL]) @@
    (3 :> [tipo_pregunta |-> "opcion_unica", opcion_correcta |-> 3])

\* The (respuestas, tiempo "HH:MM:SS") pairs a finalize request may carry.
Entregas == { [respuestas |-> <<RespuestaOpcion>>, tiempo |-> <<0, 0, 2>>],
              [respuestas |-> <<RespuestaOpcion, RespuestaErrada, RespuestaAbierta>>,
               tiempo |-> <<0, 1, 5>>] }

NoEntrega == [respuestas |-> << >>, tiempo |-> <<0, 0, 0>>]

\* One answer, to a single-choice question, and its time.
EntregaAdmin == [respuestas |-> <<RespuestaOpcion>>, tiempo |-> <<0, 0, 2>>]

\* ------------------------------------------------------------------ store
\* A row of trivia.participaciones.  The user is named by cedula, which
\* uq_usuario_cedula makes one-to-one with id_usuario.
NoFila == [id_participacion |-> 0, cedula |-> "", id_grupo |-> 0, numero_intento |-> 0,
           estado |-> "", started_at |-> NULL, finished_at |-> NULL, tiempo_total |-> NULL,
           respuestas_usuario |-> << >>, respuestas_abiertas |-> << >>]

\* Grupo.max_intentos, the column default
IntentosPorDefecto == 1

\* trivia.eventos as a run finds it
EventosIniciales == {1}

\* trivia.preguntas as a run finds it: each question with the orden of its
\* trivia.respuestas rows
PreguntasIniciales ==
    [id \in DOMAIN Preguntas |->
        [tipo_pregunta |-> Preguntas[id].tipo_pregunta,
         opcion_correcta |-> Preguntas[id].opcion_correcta,
         ordenes |-> IF Preguntas[id].tipo_pregunta = "opcion_unica" THEN {1, 2, 3}
                     ELSE {}]]

\* The group rows of a run: open from the start until one tick before the
\* end of the clock, with the default or the largest number of attempts.
GrupoConfigs ==
    { [id_evento |-> 1, fecha_inicio |-> 0, fecha_cierre |-> MaxTime - 1,
       max_intentos |-> m, cooldown |-> c] :
        m \in {IntentosPorDefecto, MaxIntentos}, c \in 0..MaxCooldown }

\* The table without ck_fecha.
CkSinFecha(g) == g.max_intentos > 0 /\ g.cooldown >= 0

\* ck_fecha, ck_max_intentos, ck_cooldown
CkGrupo(g) ==
    /\ g.fecha_cierre > g.fecha_inicio
    /\ g.max_intentos > 0
    /\ g.cooldown >= 0

\* The table without its unique constraint.
UqAusente(a, b) == FALSE

\* A unique key on the group alone.
UqSoloGrupo(a, b) == a.id_grupo = b.id_grupo

\* uq_usuario_grupo: two rows collide when they agree on (id_usuario, id_grupo).
UqUsuarioGrupo(a, b) == a.cedula = b.cedula /\ a.id_grupo = b.id_grupo

\* ---------------------------------------------------------------- results
NoneStr == <<NULL, NULL, NULL>>

\* str(timedelta) for a duration below one day: "H:MM:SS"
TimedeltaStr(d) == <<d \div 3600, (d \div 60) % 60, d % 60>>

\* timedelta(hours, minutes, seconds) of the split "HH:MM:SS"
ParseTiempo(t) == t[1] * 3600 + t[2] * 60 + t[3]

VARIABLES
    now,             \* the clock (datetime.now / now())
    grupos,          \* trivia.grupos: id_grupo -> row
    usuarios,        \* trivia.usuarios: the committed rows
    participaciones, \* trivia.participaciones: the committed rows
    next_id,         \* the serial of id_participacion
    ses,             \* the requests in flight, one per database session
    activas,         \* the sessions that take requests in this run
    gente,           \* the cedulas that show up in this run
    resultados,      \* trivia.resultados: the committed rows
    informe,         \* the list the last ranking request returned
    eventos,         \* trivia.eventos: the ids of the committed rows
    preguntas        \* trivia.preguntas with their trivia.respuestas

vars == <<now, grupos, usuarios, participaciones, next_id, ses, activas, gente,
          resultados, informe, eventos, preguntas>>

SesInicial == [pc |-> "idle", op |-> "", cedula |-> "", nombre |-> "", grupo |-> 0,
               id |-> 0, entrega |-> NoEntrega, leida |-> NoFila, fila |-> NoFila,
               accion |-> "", remaining |-> 0, tx_usuario |-> FALSE, tx_fila |-> FALSE,
               t_decision |-> NULL, status |-> 0, action |-> "",
               usuario_nuevo |-> FALSE, lista |-> << >>, detail |-> ""]

\* No ranking asked yet.
NoInforme == [hecho |-> FALSE, grupo_id |-> NULL, numero_intento |-> NULL, filas |-> << >>]

InitStore ==
    /\ now = 0
    /\ grupos \in [GrupoIds -> {g \in GrupoConfigs : CkGrupo(g)}]
    /\ usuarios = {}
    /\ eventos = EventosIniciales
    /\ preguntas = PreguntasIniciales
    /\ participaciones = {}
    /\ next_id = 1
    /\ ses = [s \in Sesiones |-> SesInicial]
    /\ resultados = {}
    /\ informe = NoInforme

\* Two requests at a time, all of the same person.
Init ==
    /\ InitStore
    /\ activas = Sesiones
    /\ gente = {"1001"}

\* One request at a time, of either person.
InitSec ==
    /\ InitStore
    /\ activas = {"s1"}
    /\ gente = Cedulas

\* One request at a time, of one person.
InitHttp ==
    /\ InitStore
    /\ activas = {"s1"}
    /\ gente = {"1001"}

Libre(s) == s \in activas /\ ses[s].pc \in {"idle", "done"}

\* ------------------------------------------------------------------ clock
Tick ==
    /\ now < MaxTime
    /\ now' = now + 1
    /\ UNCHANGED <<grupos, usuarios, participaciones, next_id, ses, activas, gente, resultados, informe, eventos, preguntas>>

\* ------------------------------------------------------------------- join
\* grupo.fecha_inicio <= now <= grupo.fecha_cierre
GrupoAbierto(g, t) == g.fecha_inicio <= t /\ t <= g.fecha_cierre

\* A request that ended: the session keeps the status and the action it answered.
Termina(op, code, action) ==
    [SesInicial EXCEPT !.pc = "done", !.op = op, !.status = code, !.action = action]

\* Router gestionar and the head of gestionar_participacion: each looks the
\* group up and checks its window, the service right behind the router.
Gestionar(s, nombre, cedula, g) ==
    /\ Libre(s)
    /\ ses' = [ses EXCEPT ![s] =
        IF g \notin DOMAIN grupos THEN Termina("gestionar", 404, "")
        ELSE IF ~GrupoAbierto(grupos[g], now) THEN Termina("gestionar", 403, "")
        ELSE [SesInicial EXCEPT !.pc = "j_proc", !.op = "gestionar", !.cedula = cedula,
                                !.nombre = nombre, !.grupo = g]]
    /\ UNCHANGED <<now, grupos, usuarios, participaciones, next_id, activas, gente, resultados, informe, eventos, preguntas>>

FilasDe(cedula, g) == { p \in participaciones : p.cedula = cedula /\ p.id_grupo = g }

\* The most recent attempt of (user, group): ORDER BY numero_intento DESC LIMIT 1.
Ultima(cedula, g) ==
    IF FilasDe(cedula, g) = {} THEN NoFila
    ELSE CHOOSE p \in FilasDe(cedula, g) :
            \A q \in FilasDe(cedula, g) :
                \/ q.numero_intento < p.numero_intento
                \/ (q.numero_intento = p.numero_intento
                    /\ q.id_participacion <= p.id_participacion)

\* The table without its "pending" row.
DecisionSinPendiente(u, gr, t) ==
    IF u = NoFila THEN "insertar"
    ELSE IF u.numero_intento >= gr.max_intentos THEN "finalizado"
    ELSE IF t >= u.finished_at + gr.cooldown THEN "insertar"
    ELSE "esperar"

\* The table asking for the cooldown before the number of attempts.
DecisionCooldownPrimero(u, gr, t) ==
    IF u = NoFila THEN "insertar"
    ELSE IF u.estado = "pendiente" THEN "continuar"
    ELSE IF t >= u.finished_at + gr.cooldown THEN "insertar"
    ELSE IF u.numero_intento >= gr.max_intentos THEN "finalizado"
    ELSE "esperar"

\* The table without its cooldown.
DecisionSinCooldown(u, gr, t) ==
    IF u = NoFila THEN "insertar"
    ELSE IF u.estado = "pendiente" THEN "continuar"
    ELSE IF u.numero_intento >= gr.max_intentos THEN "finalizado"
    ELSE "insertar"

\* The decision table on the latest attempt u of a group gr at time t.
Decision(u, gr, t) ==
    IF u = NoFila THEN "insertar"
    ELSE IF u.estado = "pendiente" THEN "continuar"
    ELSE IF u.numero_intento >= gr.max_intentos THEN "finalizado"
    ELSE IF t >= u.finished_at + gr.cooldown THEN "insertar"
    ELSE "esperar"

\* The end of the cooldown instead of the time left until it.
RemainingFinal(u, gr, t) ==
    IF Decision(u, gr, t) = "esperar" THEN u.finished_at + gr.cooldown ELSE 0

\* remaining: the time left of the cooldown, zero outside the "esperar" case.
Remaining(u, gr, t) ==
    IF Decision(u, gr, t) = "esperar" THEN (u.finished_at + gr.cooldown) - t ELSE 0

\* The table without its unique constraint.
UqCedulaAusente(a, b) == FALSE

\* uq_usuario_cedula: two rows collide when they agree on cedula.
UqUsuarioCedula(a, b) == a = b

\* The rows of trivia.usuarios with a cedula.
UsuariosDe(cedula) == { u \in usuarios : u.cedula = cedula }

\* The stored nombre of a cedula, "" when there is no such user.
NombreDe(cedula) ==
    IF UsuariosDe(cedula) = {} THEN ""
    ELSE (CHOOSE u \in UsuariosDe(cedula) : TRUE).nombre

\* id_usuario of a new row: a value no stored row has.
SiguienteIdUsuario ==
    IF usuarios = {} THEN 1
    ELSE 1 + (CHOOSE u \in usuarios : \A o \in usuarios : o.id_usuario <= u.id_usuario).id_usuario

\* The upsert of the user as its transaction commits it: the INSERT of a
\* cedula it found absent, else the UPDATE of the nombre.
UpsertUsuario(cedula, nombre, nuevo) ==
    IF nuevo
    THEN usuarios \cup {[id_usuario |-> SiguienteIdUsuario, cedula |-> cedula,
                         nombre |-> nombre]}
    ELSE { [u EXCEPT !.nombre = IF u.cedula = cedula THEN nombre ELSE @] : u \in usuarios }

\* Another transaction holds an uncommitted write of this user's row.
UsuarioBloqueado(s, cedula) ==
    \E o \in Sesiones \ {s} :
        /\ ses[o].tx_usuario /\ UqUsuarioCedula(ses[o].cedula, cedula)
        /\ ses[o].pc \in {"j_ins", "j_commit"}

\* The stored function, first statements: upsert the user by cedula, read
\* the latest attempt and decide.
ProcLeer(s) ==
    LET me == ses[s]
        u == Ultima(me.cedula, me.grupo)
        gr == grupos[me.grupo]
        d == Decision(u, gr, now)
    IN  /\ me.pc = "j_proc"
        /\ ~UsuarioBloqueado(s, me.cedula)
        /\ ses' = [ses EXCEPT ![s] =
            [@ EXCEPT !.tx_usuario = (NombreDe(me.cedula) # me.nombre),
                      !.usuario_nuevo = (UsuariosDe(me.cedula) = {}),
                      !.leida = u,
                      !.t_decision = now,
                      !.pc = IF d = "insertar" THEN "j_ins" ELSE "j_commit",
                      !.fila = u,
                      !.accion = CASE d = "continuar" -> "continuar"
                                   [] d = "finalizado" -> "finalizado"
                                   [] d = "esperar" -> "esperar"
                                   [] OTHER -> "",
                      !.remaining = Remaining(u, gr, now)]]
        /\ UNCHANGED <<now, grupos, usuarios, participaciones, next_id, activas, gente, resultados, informe, eventos, preguntas>>

NuevaFila(id, cedula, g, n, t) ==
    [NoFila EXCEPT !.id_participacion = id, !.cedula = cedula, !.id_grupo = g,
                   !.numero_intento = n, !.estado = "pendiente", !.started_at = t]

\* Another transaction holds an uncommitted row with the same unique key.
InsertBloqueado(s, f) ==
    \E o \in Sesiones \ {s} :
        ses[o].tx_fila /\ ses[o].pc = "j_commit" /\ UqUsuarioGrupo(ses[o].fila, f)

\* attempt_number of the attempt to create after the latest one
NumeroNuevo(u) == IF u = NoFila THEN 1 ELSE u.numero_intento + 1

\* The violation surfacing as an error: no row, no id.
AlChocarError(cedula, g) == [accion |-> "", fila |-> NoFila]

\* What the function answers when its INSERT meets a unique violation: the
\* resume path, with the row that is there.
AlChocar(cedula, g) == [accion |-> "continuar", fila |-> Ultima(cedula, g)]

\* The stored function, INSERT of the new attempt.
ProcInsertar(s) ==
    LET me == ses[s]
        f == NuevaFila(next_id, me.cedula, me.grupo, NumeroNuevo(me.leida), now)
        choca == \E p \in participaciones : UqUsuarioGrupo(p, f)
    IN  /\ me.pc = "j_ins"
        /\ choca \/ next_id <= MaxId
        /\ ~InsertBloqueado(s, f)
        /\ next_id' = IF choca THEN next_id ELSE next_id + 1
        /\ ses' = [ses EXCEPT ![s] =
            IF choca
            THEN [@ EXCEPT !.pc = "j_commit", !.fila = AlChocar(me.cedula, me.grupo).fila,
                           !.accion = AlChocar(me.cedula, me.grupo).accion]
            ELSE [@ EXCEPT !.pc = "j_commit", !.fila = f, !.tx_fila = TRUE,
                           !.accion = "iniciar"]]
        /\ UNCHANGED <<now, grupos, usuarios, participaciones, activas, gente, resultados, informe, eventos, preguntas>>

\* SELECT numero_intento ... WHERE id_participacion = :id_part, "or 1"
NumeroIntento(s) ==
    LET visibles == participaciones \cup (IF ses[s].tx_fila THEN {ses[s].fila} ELSE {})
        halladas == { p \in visibles : p.id_participacion = ses[s].fila.id_participacion }
    IN  IF halladas = {} THEN 1
        ELSE LET p == CHOOSE q \in halladas : TRUE
             IN  IF p.numero_intento = 0 THEN 1 ELSE p.numero_intento

\* What gestionar_participacion hands back for the row the function gave:
\* the dict, or the 500 it raises when the function gave no id.
SvcRespuesta(s) ==
    LET me == ses[s]
    IN  [status |-> IF me.fila.id_participacion = 0 THEN 500 ELSE 200,
         action |-> me.accion,
         id_participacion |-> me.fila.id_participacion,
         numero_intento |-> NumeroIntento(s),
         respuestas |-> me.fila.respuestas_usuario,
         started_at |-> me.fila.started_at,
         finished_at |-> me.fila.finished_at,
         tiempo_total |-> IF me.fila.tiempo_total = NULL \/ me.fila.tiempo_total = 0
                          THEN NoneStr
                          ELSE TimedeltaStr(me.fila.tiempo_total),
         remaining |-> TimedeltaStr(me.remaining)]

\* Service gestionar_participacion, after the function returned: no id is
\* a 500 and a rollback; else read the attempt number, commit and return.
SvcCommit(s) ==
    LET me == ses[s]
        ok == SvcRespuesta(s).status = 200
    IN  /\ me.pc = "j_commit"
        /\ usuarios' = IF ok /\ me.tx_usuario
                       THEN UpsertUsuario(me.cedula, me.nombre, me.usuario_nuevo)
                       ELSE usuarios
        /\ participaciones' = IF ok /\ me.tx_fila THEN participaciones \cup {me.fila}
                              ELSE participaciones
        /\ ses' = [ses EXCEPT ![s] =
                     Termina("gestionar", SvcRespuesta(s).status,
                             IF ok THEN SvcRespuesta(s).action ELSE "")]
        /\ UNCHANGED <<now, grupos, next_id, activas, gente, resultados, informe, eventos, preguntas>>

\* --------------------------------------------------------------- finalize
EsAbierta(resp) == resp.tipo_pregunta = "abierta"
EsOpcion(resp) == ~EsAbierta(resp)

RECURSIVE SoloAbiertas(_)
SoloAbiertas(rs) ==
    IF rs = << >> THEN << >>
    ELSE LET r == Head(rs)
         IN  (IF EsAbierta(r)
              THEN <<[id_pregunta |-> r.id_pregunta, respuesta_abierta |-> r.respuesta_abierta]>>
              ELSE << >>) \o SoloAbiertas(Tail(rs))

FilaPorId(id) ==
    IF \E p \in participaciones : p.id_participacion = id
    THEN CHOOSE p \in participaciones : p.id_participacion = id
    ELSE NoFila

\* finalizar_participacion, the SELECT and the two checks on what it read.
Finalizar(s, id, e) ==
    /\ Libre(s)
    /\ ses' = [ses EXCEPT ![s] =
        IF FilaPorId(id) = NoFila THEN Termina("finalizar", 404, "")
        ELSE IF FilaPorId(id).estado = "finalizado" THEN Termina("finalizar", 400, "")
        ELSE [SesInicial EXCEPT !.pc = "f_upd", !.op = "finalizar", !.id = id,
                                !.entrega = e]]
    /\ UNCHANGED <<now, grupos, usuarios, participaciones, next_id, activas, gente, resultados, informe, eventos, preguntas>>

\* The UPDATE without its estado.
FinalizadaSinEstado(p, e, t) ==
    [p EXCEPT !.respuestas_usuario = SelectSeq(e.respuestas, EsOpcion),
              !.respuestas_abiertas = SoloAbiertas(e.respuestas),
              !.tiempo_total = ParseTiempo(e.tiempo),
              !.finished_at = t]

\* The UPDATE without its finished_at.
FinalizadaSinFecha(p, e, t) ==
    [p EXCEPT !.respuestas_usuario = SelectSeq(e.respuestas, EsOpcion),
              !.respuestas_abiertas = SoloAbiertas(e.respuestas),
              !.tiempo_total = ParseTiempo(e.tiempo),
              !.estado = "finalizado"]

\* The values of the UPDATE statement.
Finalizada(p, e, t) ==
    [p EXCEPT !.respuestas_usuario = SelectSeq(e.respuestas, EsOpcion),
              !.respuestas_abiertas = SoloAbiertas(e.respuestas),
              !.tiempo_total = ParseTiempo(e.tiempo),
              !.finished_at = t,
              !.estado = "finalizado"]

\* The rows the UPDATE ... WHERE id_participacion = :id touches.
FilasAActualizar(id) == { p \in participaciones : p.id_participacion = id }

\* respuestas_correctas: the answers whose selected order is the question's
\* opcion_correcta; an open answer is no such answer.
Correctas(rs) ==
    Cardinality({ i \in 1..Len(rs) :
        rs[i].respuesta_seleccionada = Preguntas[rs[i].id_pregunta].opcion_correcta })

\* porcentaje_acierto, Numeric(5, 2), in hundredths: correct * 100 / total
\* rounded to two decimals.
Porcentaje(correctas, total) == (2 * 10000 * correctas + total) \div (2 * total)

\* The resultados row of a finished attempt.
Calificar(p) ==
    LET total == Len(p.respuestas_usuario) + Len(p.respuestas_abiertas)
    IN  [id_participacion |-> p.id_participacion,
         total_preguntas |-> total,
         respuestas_correctas |-> Correctas(p.respuestas_usuario),
         porcentaje_acierto |-> Porcentaje(Correctas(p.respuestas_usuario), total),
         tiempo_total |-> p.tiempo_total]

\* The trigger on participaciones: an attempt that changes to "finalizado"
\* gets its resultados row.
TrgParticipacionFinalizada(viejas, e, t) ==
    { Calificar(Finalizada(p, e, t)) : p \in { q \in viejas : q.estado = "pendiente" } }

\* finalizar_participacion, the UPDATE and the commit.
FinUpdate(s) ==
    LET me == ses[s]
        tocadas == FilasAActualizar(me.id)
    IN  /\ me.pc = "f_upd"
        /\ participaciones' = (participaciones \ tocadas)
                               \cup { Finalizada(p, me.entrega, now) : p \in tocadas }
        /\ resultados' = resultados \cup TrgParticipacionFinalizada(tocadas, me.entrega, now)
        /\ ses' = [ses EXCEPT ![s] = Termina("finalizar", 200, "")]
        /\ UNCHANGED <<now, grupos, usuarios, next_id, activas, gente, informe, eventos, preguntas>>

\* ----------------------------------------------------------------- delete
\* resultados.id_participacion, ON DELETE CASCADE: the rows that go with an attempt.
ResultadosDe(id) == { r \in resultados : r.id_participacion = id }

\* eliminar_participacion: db.get, 404 when absent, DELETE and commit.
Eliminar(s, id) ==
    /\ Libre(s)
    /\ IF FilaPorId(id) = NoFila
       THEN /\ ses' = [ses EXCEPT ![s] = Termina("eliminar", 404, "")]
            /\ UNCHANGED <<participaciones, resultados>>
       ELSE /\ ses' = [ses EXCEPT ![s] = Termina("eliminar", 204, "")]
            /\ participaciones' = participaciones \ {FilaPorId(id)}
            /\ resultados' = resultados \ ResultadosDe(id)
    /\ UNCHANGED <<now, grupos, usuarios, next_id, activas, gente, informe, eventos, preguntas>>

\* ----------------------------------------------------------------- groups
\* The events and the groups of a run that creates and deletes them.
EventoIds == {1, 2}

\* the most groups a run stores at a time
MaxGrupos == 2

\* Grupo.cooldown, the column default (five minutes), in ticks of the clock
CooldownPorDefecto == 1

\* The dates a request may carry; NULL for a parameter that is not given.
Fechas == 0..MaxTime

\* A request that ended with the detail of its error.
Responder(op, code, detail) == [Termina(op, code, "") EXCEPT !.detail = detail]

\* id_grupo of a new row: a value no stored row has.
SiguienteIdGrupo ==
    IF DOMAIN grupos = {} THEN 1
    ELSE 1 + (CHOOSE g \in DOMAIN grupos : \A o \in DOMAIN grupos : o <= g)

\* Router crear_evento: it calls create_evento with the name and the type
\* where the function takes the request object, and answers the TypeError
\* with its 500.
CrearEvento(s) ==
    /\ Libre(s)
    /\ ses' = [ses EXCEPT ![s] =
                 Responder("crear_evento", 500, "Error interno al crear el evento.")]
    /\ UNCHANGED <<now, grupos, usuarios, participaciones, next_id, activas, gente,
                   resultados, informe, eventos, preguntas>>

\* GrupoCreate: validar_fecha_cierre
GrupoCreateValido(fecha_inicio, fecha_cierre) == ~(fecha_cierre <= fecha_inicio)

\* Router crear_grupo and create_grupo: the request validated by its
\* schema, the event looked up, the row added with the column defaults.
CrearGrupo(s, id_evento, fecha_inicio, fecha_cierre) ==
    LET g == SiguienteIdGrupo
        fila == [id_evento |-> id_evento, fecha_inicio |-> fecha_inicio,
                 fecha_cierre |-> fecha_cierre, max_intentos |-> IntentosPorDefecto,
                 cooldown |-> CooldownPorDefecto]
    IN  /\ Libre(s)
        /\ IF ~GrupoCreateValido(fecha_inicio, fecha_cierre)
           THEN /\ ses' = [ses EXCEPT ![s] = Responder("crear_grupo", 422, "fecha_cierre")]
                /\ UNCHANGED grupos
           ELSE IF id_evento \notin eventos
           THEN /\ ses' = [ses EXCEPT ![s] =
                             Responder("crear_grupo", 404, "Evento no encontrado")]
                /\ UNCHANGED grupos
           ELSE IF ~CkGrupo(fila)
           THEN /\ ses' = [ses EXCEPT ![s] =
                             Responder("crear_grupo", 400, "GRUPO_NOMBRE_DUPLICADO")]
                /\ UNCHANGED grupos
           ELSE /\ g <= MaxGrupos
                /\ ses' = [ses EXCEPT ![s] = Responder("crear_grupo", 201, "")]
                /\ grupos' = (g :> fila) @@ grupos
        /\ UNCHANGED <<now, usuarios, participaciones, next_id, activas, gente,
                       resultados, informe, eventos, preguntas>>

\* An update that writes the row back with the default max_intentos.
GrupoActualizadoPorDefecto(fila, fecha_inicio, fecha_cierre) ==
    [fila EXCEPT !.fecha_inicio = IF fecha_inicio # NULL THEN fecha_inicio ELSE @,
                 !.fecha_cierre = IF fecha_cierre # NULL THEN fecha_cierre ELSE @,
                 !.max_intentos = IntentosPorDefecto]

\* update_grupo: the fields that were given replace the stored ones.
GrupoActualizado(fila, fecha_inicio, fecha_cierre) ==
    [fila EXCEPT !.fecha_inicio = IF fecha_inicio # NULL THEN fecha_inicio ELSE @,
                 !.fecha_cierre = IF fecha_cierre # NULL THEN fecha_cierre ELSE @]

\* Router actualizar_grupo and update_grupo: 404 for no such group, 400
\* when both dates are given and fecha_cierre <= fecha_inicio; the commit
\* of the changed row fails on a CHECK constraint with an IntegrityError,
\* which the router answers with its 400.
ActualizarGrupo(s, g, fecha_inicio, fecha_cierre) ==
    /\ Libre(s)
    /\ IF g \notin DOMAIN grupos
       THEN /\ ses' = [ses EXCEPT ![s] =
                         Responder("actualizar_grupo", 404, "GRUPO_NO_ENCONTRADO")]
            /\ UNCHANGED grupos
       ELSE IF fecha_inicio # NULL /\ fecha_cierre # NULL /\ fecha_cierre <= fecha_inicio
       THEN /\ ses' = [ses EXCEPT ![s] =
                         Responder("actualizar_grupo", 400, "FECHA_CIERRE_INVALIDA")]
            /\ UNCHANGED grupos
       ELSE IF ~CkGrupo(GrupoActualizado(grupos[g], fecha_inicio, fecha_cierre))
       THEN /\ ses' = [ses EXCEPT ![s] =
                         Responder("actualizar_grupo", 400, "GRUPO_NOMBRE_DUPLICADO")]
            /\ UNCHANGED grupos
       ELSE /\ ses' = [ses EXCEPT ![s] = Responder("actualizar_grupo", 200, "")]
            /\ grupos' = [grupos EXCEPT
                             ![g] = GrupoActualizado(grupos[g], fecha_inicio, fecha_cierre)]
    /\ UNCHANGED <<now, usuarios, participaciones, next_id, activas, gente,
                   resultados, informe, eventos, preguntas>>

\* A test that leaves both ends out.
BetweenAbierto(x, a, b) == a < x /\ x < b

\* SQL BETWEEN: both ends belong.
Between(x, a, b) == a <= x /\ x <= b

\* The groups get_grupos_activos selects: the window holds fecha, and the
\* event is the given one when one is given.
GruposActivos(fecha, evento_id) ==
    { g \in DOMAIN grupos :
        /\ Between(fecha, grupos[g].fecha_inicio, grupos[g].fecha_cierre)
        /\ evento_id = NULL \/ grupos[g].id_evento = evento_id }

\* ORDER BY fecha_inicio: the orders in which the groups G may come.
PorFechaInicio(G) ==
    { f \in [1..Cardinality(G) -> G] :
        /\ \A i, j \in 1..Cardinality(G) : i # j => f[i] # f[j]
        /\ \A i, j \in 1..Cardinality(G) :
             i < j => grupos[f[i]].fecha_inicio <= grupos[f[j]].fecha_inicio }

\* Router listar_grupos_activos and get_grupos_activos: fecha defaults to
\* the clock.
ListarGruposActivos(s, fecha, evento_id) ==
    /\ Libre(s)
    /\ \E f \in PorFechaInicio(GruposActivos(IF fecha = NULL THEN now ELSE fecha, evento_id)) :
          ses' = [ses EXCEPT ![s] = [Responder("grupos_activos", 200, "") EXCEPT !.lista = f]]
    /\ UNCHANGED <<now, grupos, usuarios, participaciones, next_id, activas, gente,
                   resultados, informe, eventos, preguntas>>

\* -------------------------------------------------------------- questions
\* RespuestaBase.orden: le=4
MaxOrden == 4

\* A parameter of a list that is not given (None).
SinLista == <<NULL>>

\* The orden of the answer options a request may list, in its order.
ListasDeOrdenes ==
    {SinLista, << >>, <<1>>, <<1, 2>>, <<2, 1>>, <<1, 3>>, <<1, 1>>, <<1, 2, 3, 4>>,
     <<1, 2, 3, 4, 5>>}

\* The opcion_correcta a request may name; NULL when not given.
OpcionesPedidas == {NULL} \cup (1..(MaxOrden + 1))

Ordenes(lista) == { lista[i] : i \in 1..Len(lista) }

\* sorted(ordenes) == list(range(1, len(respuestas) + 1))
Consecutivos(lista) ==
    /\ Ordenes(lista) = 1..Len(lista)
    /\ \A i, j \in 1..Len(lista) : i # j => lista[i] # lista[j]

\* RespuestaCreate: every orden of the list is in 1..4.
OrdenesValidos(lista) == \A i \in 1..Len(lista) : lista[i] > 0 /\ lista[i] <= MaxOrden

\* PreguntaCreate: validar_respuestas and validar_opcion_correcta.
PreguntaCreateValida(tipo, lista, opcion) ==
    IF tipo = "opcion_unica"
    THEN /\ lista # SinLista /\ lista # << >> /\ Len(lista) <= 4
         /\ OrdenesValidos(lista)
         /\ Consecutivos(lista)
         /\ opcion # NULL
         /\ opcion \in Ordenes(lista)
    ELSE /\ lista \in {SinLista, << >>}
         /\ opcion = NULL

\* Router crear_pregunta: the request validated by its schema, then
\* create_pregunta called with the list of answers in the place of
\* tipo_pregunta: the INSERT of the question fails, on NOT NULL when the
\* list is None (IntegrityError, 400) and on the type of the value
\* otherwise (500); nothing is stored.
CrearPregunta(s, tipo, lista, opcion) ==
    /\ Libre(s)
    /\ ses' = [ses EXCEPT ![s] =
        IF ~PreguntaCreateValida(tipo, lista, opcion)
        THEN Responder("crear_pregunta", 422, "")
        ELSE IF lista = SinLista
        THEN Responder("crear_pregunta", 400,
                       "Ya existe una pregunta con el mismo texto en esta sección")
        ELSE Responder("crear_pregunta", 500, "")]
    /\ UNCHANGED <<now, grupos, usuarios, participaciones, next_id, activas, gente,
                   resultados, informe, eventos, preguntas>>

\* update_pregunta: a single-choice question gets the listed options in
\* the place of its own when a list is given, and the opcion_correcta when
\* one is given; an open question keeps what it has.
PreguntaActualizada(q, lista, opcion) ==
    IF q.tipo_pregunta # "opcion_unica" THEN q
    ELSE [q EXCEPT !.ordenes = IF lista # SinLista THEN Ordenes(lista) ELSE @,
                   !.opcion_correcta = IF opcion # NULL THEN opcion ELSE @]

\* Router actualizar_pregunta and update_pregunta.
ActualizarPregunta(s, id, lista, opcion) ==
    /\ Libre(s)
    /\ IF lista # SinLista /\ ~OrdenesValidos(lista)
       THEN /\ ses' = [ses EXCEPT ![s] = Responder("actualizar_pregunta", 422, "")]
            /\ UNCHANGED preguntas
       ELSE IF id \notin DOMAIN preguntas
       THEN /\ ses' = [ses EXCEPT ![s] =
                         Responder("actualizar_pregunta", 404, "PREGUNTA_NO_ENCONTRADA")]
            /\ UNCHANGED preguntas
       ELSE IF lista # SinLista /\ ~Consecutivos(lista)
       THEN /\ ses' = [ses EXCEPT ![s] =
                         Responder("actualizar_pregunta", 400, "ordenes")]
            /\ UNCHANGED preguntas
       ELSE IF lista # SinLista /\ opcion # NULL /\ opcion \notin Ordenes(lista)
       THEN /\ ses' = [ses EXCEPT ![s] =
                         Responder("actualizar_pregunta", 400, "opcion_correcta")]
            /\ UNCHANGED preguntas
       ELSE /\ ses' = [ses EXCEPT ![s] = Responder("actualizar_pregunta", 200, "")]
            /\ preguntas' = [preguntas EXCEPT
                                ![id] = PreguntaActualizada(preguntas[id], lista, opcion)]
    /\ UNCHANGED <<now, grupos, usuarios, participaciones, next_id, activas, gente,
                   resultados, informe, eventos>>

\* ---------------------------------------------------------------- cascade
\* A foreign key that does not cascade.
SinCascada(G) == {}

\* participaciones.id_grupo, ON DELETE CASCADE: the attempts that go with groups.
ParticipacionesDeGrupos(G) == { p \in participaciones : p.id_grupo \in G }

\* participaciones.id_usuario, ON DELETE CASCADE, and the attempts that
\* delete_usuario_by_cedula deletes itself: those of the cedula.
ParticipacionesDeCedula(cedula) == { p \in participaciones : p.cedula = cedula }

\* resultados.id_participacion, ON DELETE CASCADE: the rows that go with attempts.
ResultadosDeTodas(P) ==
    { r \in resultados : \E p \in P : r.id_participacion = p.id_participacion }

\* grupos.id_evento, ON DELETE CASCADE: the groups that go with an event.
GruposDeEvento(ev) == { g \in DOMAIN grupos : grupos[g].id_evento = ev }

\* Router eliminar_grupo and delete_grupo.
EliminarGrupo(s, g) ==
    /\ Libre(s)
    /\ IF g \notin DOMAIN grupos
       THEN /\ ses' = [ses EXCEPT ![s] = Responder("eliminar_grupo", 404, "GRUPO_NO_ENCONTRADO")]
            /\ UNCHANGED <<grupos, participaciones, resultados>>
       ELSE /\ ses' = [ses EXCEPT ![s] = Responder("eliminar_grupo", 204, "")]
            /\ grupos' = [o \in DOMAIN grupos \ {g} |-> grupos[o]]
            /\ participaciones' = participaciones \ ParticipacionesDeGrupos({g})
            /\ resultados' = resultados \ ResultadosDeTodas(ParticipacionesDeGrupos({g}))
    /\ UNCHANGED <<now, usuarios, next_id, activas, gente, informe, eventos, preguntas>>

\* Router eliminar_evento and delete_evento.
EliminarEvento(s, ev) ==
    /\ Libre(s)
    /\ IF ev \notin eventos
       THEN /\ ses' = [ses EXCEPT ![s] = Responder("eliminar_evento", 404, "EVENTO_NO_ENCONTRADO")]
            /\ UNCHANGED <<eventos, grupos, participaciones, resultados>>
       ELSE /\ ses' = [ses EXCEPT ![s] = Responder("eliminar_evento", 204, "")]
            /\ eventos' = eventos \ {ev}
            /\ grupos' = [o \in DOMAIN grupos \ GruposDeEvento(ev) |-> grupos[o]]
            /\ participaciones' = participaciones \ ParticipacionesDeGrupos(GruposDeEvento(ev))
            /\ resultados' = resultados
                    \ ResultadosDeTodas(ParticipacionesDeGrupos(GruposDeEvento(ev)))
    /\ UNCHANGED <<now, usuarios, next_id, activas, gente, informe, preguntas>>

\* Router eliminar_usuario and delete_usuario_by_cedula: the attempts of
\* the cedula deleted one by one, then the user.
EliminarUsuario(s, cedula) ==
    /\ Libre(s)
    /\ IF UsuariosDe(cedula) = {}
       THEN /\ ses' = [ses EXCEPT ![s] = Responder("eliminar_usuario", 404, "Usuario no encontrado")]
            /\ UNCHANGED <<usuarios, participaciones, resultados>>
       ELSE /\ ses' = [ses EXCEPT ![s] = Responder("eliminar_usuario", 204, "")]
            /\ usuarios' = usuarios \ UsuariosDe(cedula)
            /\ participaciones' = participaciones \ ParticipacionesDeCedula(cedula)
            /\ resultados' = resultados \ ResultadosDeTodas(ParticipacionesDeCedula(cedula))
    /\ UNCHANGED <<now, grupos, next_id, activas, gente, informe, eventos, preguntas>>

\* ---------------------------------------------------------------- ranking
\* The people of a ranking run, in the order of their attempts' ids.
CedulasRanking == <<"1001", "1002", "1003">>

\* What each of them may have handed in.
EntregasRanking ==
    { [respuestas |-> rs, tiempo |-> <<0, 0, t>>] :
        rs \in { <<RespuestaOpcion>>, <<RespuestaErrada>>, <<RespuestaOpcion, RespuestaErrada>> },
        t \in 1..MaxTiempoJuego }

\* The store after each person k with an entrega joined the group and
\* finalized with it at time 0; NoEntrega: the person never joined.
InitRank ==
    \E entregas \in [1..Len(CedulasRanking) -> EntregasRanking \cup {NoEntrega}] :
        LET vinieron == { k \in 1..Len(CedulasRanking) : entregas[k] # NoEntrega }
            fila(k) == Finalizada(NuevaFila(k, CedulasRanking[k], 1, 1, 0), entregas[k], 0)
        IN  /\ now = 0
            /\ grupos = [g \in GrupoIds |->
                    [id_evento |-> 1, fecha_inicio |-> 0, fecha_cierre |-> MaxTime - 1,
                     max_intentos |-> IntentosPorDefecto, cooldown |-> 0]]
            /\ usuarios = { [id_usuario |-> k, cedula |-> CedulasRanking[k], nombre |-> "Ana"] :
                                k \in vinieron }
            /\ eventos = EventosIniciales
            /\ preguntas = PreguntasIniciales
            /\ participaciones = { fila(k) : k \in vinieron }
            /\ resultados = { Calificar(fila(k)) : k \in vinieron }
            /\ next_id = Len(CedulasRanking) + 1
            /\ ses = [s \in Sesiones |-> SesInicial]
            /\ activas = {}
            /\ gente = {}
            /\ informe = NoInforme

\* The rows of the join Usuario - Participacion - Resultado - Grupo that
\* pass the optional filters, as (attempt, result) pairs.
Coincidentes(grupo_id, numero_intento) ==
    { pr \in participaciones \X resultados :
        /\ pr[2].id_participacion = pr[1].id_participacion
        /\ UsuariosDe(pr[1].cedula) # {}
        /\ pr[1].id_grupo \in DOMAIN grupos
        /\ grupo_id = NULL \/ pr[1].id_grupo = grupo_id
        /\ numero_intento = NULL \/ pr[1].numero_intento = numero_intento }

\* An order by tiempo_total alone.
VaAntesSoloTiempo(a, b) == a.tiempo_total <= b.tiempo_total

\* ORDER BY respuestas_correctas DESC, tiempo_total ASC: a may come before b.
VaAntes(a, b) ==
    \/ a.respuestas_correctas > b.respuestas_correctas
    \/ /\ a.respuestas_correctas = b.respuestas_correctas
       /\ a.tiempo_total <= b.tiempo_total

\* The orders in which the database may return the rows S.
Ordenadas(S) ==
    { f \in [1..Cardinality(S) -> S] :
        /\ \A i, j \in 1..Cardinality(S) : i # j => f[i] # f[j]
        /\ \A i, j \in 1..Cardinality(S) : i < j => VaAntes(f[i][2], f[j][2]) }

\* RankingUsuarioOut of the row at position idx + 1.
FilaRanking(posicion, pr) ==
    [ranking |-> posicion,
     cedula |-> pr[1].cedula,
     nombre |-> NombreDe(pr[1].cedula),
     grupo |-> pr[1].id_grupo,
     tiempo_juego |-> TimedeltaStr(pr[2].tiempo_total),
     total_preguntas |-> pr[2].total_preguntas,
     respuestas_correctas |-> pr[2].respuestas_correctas]

\* ranking_usuarios(db, grupo_id, numero_intento)
RankingUsuarios(grupo_id, numero_intento) ==
    /\ \E f \in Ordenadas(Coincidentes(grupo_id, numero_intento)) :
          informe' = [hecho |-> TRUE, grupo_id |-> grupo_id,
                      numero_intento |-> numero_intento,
                      filas |-> [i \in DOMAIN f |-> FilaRanking(i, f[i])]]
    /\ UNCHANGED <<now, grupos, usuarios, participaciones, next_id, ses, activas, gente,
                   resultados, eventos, preguntas>>

\* ------------------------------------------------------------- HTTP layer
\* ParticipacionResponse: the fields declared without a default.
CamposRequeridos == {"token", "action", "id_participacion", "numero_intento",
                     "respuestas", "started_at", "remaining"}

\* The keyword arguments the router builds its ParticipacionResponse with.
CamposPasados == {"token", "action", "id_participacion", "respuestas",
                  "started_at", "tiempo_total"}

\* The model validates: no required field is missing.
RespuestaValida == CamposRequeridos \subseteq CamposPasados

\* Router gestionar: every exception raised inside its try block, the
\* HTTPException of the checks and the validation error of the response
\* included, leaves as a 500.
RouterGestionar(status) == IF status = 200 /\ RespuestaValida THEN 200 ELSE 500

\* Router finalizar: the same wrapper around finalizar_participacion.
RouterFinalizar(status) == IF status = 200 THEN 200 ELSE 500

\* crear_token: the session data with its expiration, signed with the key.
CrearToken(cedula, nombre, g, id, t) ==
    [cedula |-> cedula, nombre |-> nombre, id_grupo |-> g, id_participacion |-> id,
     exp |-> t + JwtExpiracion, firmado |-> TRUE]

\* The bearer tokens a finalize request may present: issued for any attempt
\* at any time a group was open, or carrying a signature that does not verify.
Tokens ==
    { [id_participacion |-> id, exp |-> t + JwtExpiracion, firmado |-> f] :
        id \in 1..MaxId, t \in 0..(MaxTime - 1), f \in BOOLEAN }

\* A decode that never looks at exp.
TokenValidoSinExp(tok, t) == tok.firmado

\* verificar_token: jwt.decode checks the signature and that exp has not passed.
TokenValido(tok, t) == tok.firmado /\ ~(tok.exp < t)

\* A router that never compares the two ids.
TokenAjenoNunca(tok, id) == FALSE

\* usuario["id_participacion"] != data.id_participacion
TokenAjeno(tok, id) == tok.id_participacion # id

\* An answer to the open question as a request body can carry it: with a
\* selected order, which RespuestaUsuario requires.
RespuestaAbiertaHttp == [id_pregunta |-> 2, tipo_pregunta |-> "abierta",
                         respuesta_seleccionada |-> 1, respuesta_abierta |-> "texto"]

\* The bodies a finalize request may carry.
Cuerpos ==
    Entregas \cup { [respuestas |-> <<RespuestaOpcion, RespuestaAbiertaHttp>>,
                     tiempo |-> <<0, 0, 2>>] }

\* RespuestaUsuario: id_pregunta gt=0, respuesta_seleccionada ge=1, le=4
RespuestaUsuarioValida(r) ==
    r.id_pregunta > 0 /\ r.respuesta_seleccionada >= 1 /\ r.respuesta_seleccionada <= 4

\* FinalizarParticipacionRequest: at least one answer, each one valid.
CuerpoValido(e) ==
    /\ e.respuestas # << >>
    /\ \A i \in 1..Len(e.respuestas) : RespuestaUsuarioValida(e.respuestas[i])

\* resp.model_dump(): the declared fields id_pregunta and
\* respuesta_seleccionada; "" stands for a key the dict does not have.
ModelDump(r) == [r EXCEPT !.tipo_pregunta = "", !.respuesta_abierta = ""]

\* [resp.model_dump() for resp in data.respuestas], with data.tiempo
Volcado(e) ==
    [respuestas |-> [i \in 1..Len(e.respuestas) |-> ModelDump(e.respuestas[i])],
     tiempo |-> e.tiempo]

\* Router finalizar with its dependency verificar_token: 401 for a token
\* that does not verify, 422 for a body that its schema rejects, 403 for
\* the token of another attempt, and only then the call of
\* finalizar_participacion with the dumped answers.
FinalizarHttp(s, tok, id, e) ==
    IF ~TokenValido(tok, now)
    THEN /\ Libre(s)
         /\ ses' = [ses EXCEPT ![s] = Termina("finalizar", 401, "")]
         /\ UNCHANGED <<now, grupos, usuarios, participaciones, next_id, activas, gente,
                        resultados, informe, eventos, preguntas>>
    ELSE IF ~CuerpoValido(e)
    THEN /\ Libre(s)
         /\ ses' = [ses EXCEPT ![s] = Termina("finalizar", 422, "")]
         /\ UNCHANGED <<now, grupos, usuarios, participaciones, next_id, activas, gente,
                        resultados, informe, eventos, preguntas>>
    ELSE IF TokenAjeno(tok, id)
    THEN /\ Libre(s)
         /\ ses' = [ses EXCEPT ![s] = Termina("finalizar", 403, "")]
         /\ UNCHANGED <<now, grupos, usuarios, participaciones, next_id, activas, gente,
                        resultados, informe, eventos, preguntas>>
    ELSE Finalizar(s, id, Volcado(e))

\* =================================================================== claims
Pares == Cedulas \X GrupoIds

Pendientes(c, g) == { p \in FilasDe(c, g) : p.estado = "pendiente" }

\* C1: in every reachable state, whatever the interleaving of joins,
\* finalizes and deletes, each (user, group) has at most one pending attempt.
C1_UnaPendiente ==
    \A par \in Pares : Cardinality(Pendientes(par[1], par[2])) <= 1

\* Two joins of the same pair that both read "no attempt": one holds its
\* uncommitted row, the other is about to insert.
C1_Witness ==
    \E s, o \in Sesiones :
        /\ s # o
        /\ ses[s].pc = "j_commit" /\ ses[s].tx_fila /\ ses[s].leida = NoFila
        /\ ses[o].pc = "j_ins" /\ ses[o].leida = NoFila
        /\ ses[o].cedula = ses[s].cedula /\ ses[o].grupo = ses[s].grupo

C4_UnSoloGanador ==
    [][\A s \in Sesiones :
        (ses[s].pc = "f_upd" /\ ses'[s].pc = "done" /\ ses'[s].status = 200) =>
            \A p \in FilasAActualizar(ses[s].id) :
                p.estado = "pendiente" \/ p \in participaciones']_vars

\* The join step that returns: from the function's result to the response.
Responde(s) == ses[s].pc = "j_commit" /\ ses'[s].pc = "done"

\* The join step that runs the INSERT.
Inserta(s) == ses[s].pc = "j_ins" /\ ses'[s].pc = "j_commit"

LeyoPendiente(s) == ses[s].leida # NoFila /\ ses[s].leida.estado = "pendiente"

LeyoFinalizada(s) == ses[s].leida # NoFila /\ ses[s].leida.estado = "finalizado"

\* C5: a join whose latest attempt is pending returns that attempt's id
\* with action "continuar", and leaves the row and the set of attempts as
\* they were, so any number of such joins in a row return the same.
C5_ContinuarIdempotente ==
    [][\A s \in Sesiones :
        (Responde(s) /\ LeyoPendiente(s)) =>
            /\ ses'[s].status = 200
            /\ ses'[s].action = "continuar"
            /\ SvcRespuesta(s).id_participacion = ses[s].leida.id_participacion
            /\ SvcRespuesta(s).numero_intento = ses[s].leida.numero_intento
            /\ ses[s].leida \in participaciones'
            /\ participaciones' = participaciones]_vars

\* A join about to answer "continuar" for the pending attempt it read.
C5_Witness ==
    \E s \in Sesiones :
        /\ ses[s].pc = "j_commit" /\ LeyoPendiente(s)
        /\ ses[s].accion = "continuar"
        /\ ses[s].leida \in participaciones

EnCooldown(s) ==
    /\ LeyoFinalizada(s)
    /\ ses[s].leida.numero_intento < grupos[ses[s].grupo].max_intentos
    /\ ses[s].t_decision < ses[s].leida.finished_at + grupos[ses[s].grupo].cooldown

\* C7: a join inside the cooldown of a finished attempt that is not the
\* last allowed creates nothing and returns action "esperar" with
\* remaining = (finished_at + cooldown) - now, which is positive.
C7_Esperar ==
    [][\A s \in Sesiones :
        (Responde(s) /\ EnCooldown(s)) =>
            LET falta == (ses[s].leida.finished_at + grupos[ses[s].grupo].cooldown)
                            - ses[s].t_decision
            IN  /\ ses'[s].status = 200
                /\ ses'[s].action = "esperar"
                /\ falta > 0
                /\ SvcRespuesta(s).remaining = TimedeltaStr(falta)
                /\ participaciones' = participaciones]_vars

\* A join about to answer "esperar", decided after the clock moved.
C7_Witness ==
    \E s \in Sesiones :
        /\ ses[s].pc = "j_commit" /\ EnCooldown(s)
        /\ ses[s].t_decision > 0
        /\ ses[s].accion = "esperar"

\* The join decided at or after the end of the cooldown of a finished
\* attempt that is not the last allowed.
TrasCooldown(s) ==
    /\ LeyoFinalizada(s)
    /\ ses[s].leida.numero_intento < grupos[ses[s].grupo].max_intentos
    /\ ses[s].t_decision >= ses[s].leida.finished_at + grupos[ses[s].grupo].cooldown

\* C8: a join at or after the end of the cooldown of a finished attempt
\* that is not the last allowed creates one new attempt, numbered the
\* previous + 1, pending, started now, and returns action "iniciar".
C8_SiguienteIntento ==
    [][\A s \in Sesiones :
        /\ (Inserta(s) /\ TrasCooldown(s)) =>
             /\ ses'[s].tx_fila
             /\ ses'[s].fila.numero_intento = ses[s].leida.numero_intento + 1
             /\ ses'[s].fila.estado = "pendiente"
             /\ ses'[s].fila.started_at = now
             /\ ses'[s].accion = "iniciar"
        /\ (Responde(s) /\ TrasCooldown(s)) =>
             /\ ses'[s].action = "iniciar"
             /\ participaciones' = participaciones \cup {ses[s].fila}
             /\ Cardinality(participaciones') = Cardinality(participaciones) + 1]_vars

\* The pair of the join has no attempt, stored or in flight.
SinIntentos(s) == ses[s].leida = NoFila /\ FilasDe(ses[s].cedula, ses[s].grupo) = {}

C10_ConflictoAlRepetir ==
    [][\A s \in Sesiones, id \in 1..MaxId :
        (Finalizar(s, id, NoEntrega) /\ FilaPorId(id).estado = "finalizado") =>
            /\ RouterFinalizar(ses'[s].status) = 409
            /\ participaciones' = participaciones]_vars

\* Each finished attempt has exactly one resultados row, a pending one none.
UnResultadoPorFinalizada ==
    \A p \in participaciones :
        /\ p.estado = "finalizado" => Cardinality(ResultadosDe(p.id_participacion)) = 1
        /\ p.estado = "pendiente" => ResultadosDe(p.id_participacion) = {}

\* C11: the first finalize of a pending attempt succeeds, leaves the
\* attempt finished with exactly one resultados row, and in every state
\* each finished attempt has exactly one such row and no pending one has any.
C11_PrimerFinalizar ==
    [][/\ UnResultadoPorFinalizada'
       /\ \A s \in Sesiones :
            (ses[s].pc = "f_upd" /\ ses'[s].pc = "done"
                /\ \E p \in FilasAActualizar(ses[s].id) : p.estado = "pendiente") =>
                /\ RouterFinalizar(ses'[s].status) = 200
                /\ \A p \in participaciones' :
                     p.id_participacion = ses[s].id => p.estado = "finalizado"
                /\ Cardinality({ r \in resultados' : r.id_participacion = ses[s].id }) = 1
                /\ Cardinality({ r \in resultados : r.id_participacion = ses[s].id }) = 0]_vars

\* A finished attempt stored with its resultados row.
C11_Witness ==
    \E p \in participaciones :
        /\ p.estado = "finalizado"
        /\ Cardinality(ResultadosDe(p.id_participacion)) = 1

\* C12: in every state an attempt, stored or being inserted, has finished_at
\* and tiempo_total set exactly when its estado is "finalizado"; a new
\* attempt has both null and a finished one has both, written by one UPDATE.
C12_FinalizadaCompleta ==
    /\ \A p \in participaciones :
        /\ p.estado \in {"pendiente", "finalizado"}
        /\ (p.estado = "finalizado") <=> (p.finished_at # NULL)
        /\ (p.estado = "finalizado") <=> (p.tiempo_total # NULL)
        /\ p.estado = "pendiente" => p.respuestas_usuario = << >> /\ p.respuestas_abiertas = << >>
    /\ \A s \in Sesiones :
        ses[s].tx_fila =>
            /\ ses[s].fila.estado = "pendiente"
            /\ ses[s].fila.finished_at = NULL
            /\ ses[s].fila.tiempo_total = NULL

\* A finished attempt stored with its answers, open ones among them.
C12_Witness ==
    \E p \in participaciones :
        p.estado = "finalizado" /\ p.finished_at # NULL /\ p.respuestas_abiertas # << >>

\* C13: a join or a finalize that reports an error to its caller leaves
\* users, attempts and results as they were, and an attempt is persisted
\* only by a join that reports success.
C13_TodoONada ==
    [][\A s \in Sesiones :
        /\ (Responde(s) /\ RouterGestionar(ses'[s].status) # 200) =>
             /\ usuarios' = usuarios
             /\ participaciones' = participaciones
        /\ (Responde(s) /\ participaciones' # participaciones) =>
             RouterGestionar(ses'[s].status) = 200
        /\ (ses'[s] # ses[s] /\ ses'[s].pc = "done" /\ ses'[s].op = "finalizar"
                /\ RouterFinalizar(ses'[s].status) # 200) =>
             /\ participaciones' = participaciones
             /\ resultados' = resultados]_vars

\* C14: a join of an existing group outside its window is answered 403
\* and creates or renames no user and creates no attempt; at fecha_inicio
\* and at fecha_cierre the join is admitted.
C14_FueraDeVentana ==
    [][\A s \in Sesiones, nombre \in Nombres, cedula \in Cedulas, g \in GrupoIds :
        Gestionar(s, nombre, cedula, g) =>
            /\ ~GrupoAbierto(grupos[g], now) =>
                 /\ ses'[s].pc = "done"
                 /\ RouterGestionar(ses'[s].status) = 403
                 /\ usuarios' = usuarios
                 /\ participaciones' = participaciones
            /\ now \in {grupos[g].fecha_inicio, grupos[g].fecha_cierre} =>
                 ses'[s].pc = "j_proc"]_vars

\* C15: every join that resolves an attempt returns a success response
\* with the action, the attempt id, the attempt number and the remaining
\* wait, and a signed token for that attempt id and the request's data.
C15_RespuestaConToken ==
    [][\A s \in Sesiones :
        (Responde(s) /\ SvcRespuesta(s).status = 200) =>
            LET tok == CrearToken(ses[s].cedula, ses[s].nombre, ses[s].grupo,
                                  SvcRespuesta(s).id_participacion, now)
            IN  /\ RouterGestionar(ses'[s].status) = 200
                /\ {"action", "id_participacion", "numero_intento", "remaining", "token"}
                        \subseteq CamposPasados
                /\ tok.firmado
                /\ tok.id_participacion = ses[s].fila.id_participacion
                /\ tok.cedula = ses[s].cedula /\ tok.id_grupo = ses[s].grupo]_vars

\* C16: a finalize whose valid token names another attempt than the request
\* ends at once with 403, the store neither read nor written, so it never
\* reaches the UPDATE of the attempt it asked for.
C16_TokenDeOtroIntento ==
    [][\A s \in Sesiones, tok \in Tokens, id \in 1..MaxId :
        (Libre(s) /\ tok.firmado /\ now <= tok.exp /\ tok.id_participacion # id
            /\ FinalizarHttp(s, tok, id, EntregaAdmin)) =>
            /\ ses'[s] = Termina("finalizar", 403, "")
            /\ participaciones' = participaciones
            /\ resultados' = resultados]_vars

\* A request rejected with 403 while the attempt it asked for is pending.
C16_Witness ==
    \E s \in Sesiones :
        /\ ses[s].pc = "done" /\ ses[s].op = "finalizar" /\ ses[s].status = 403
        /\ \E p \in participaciones : p.estado = "pendiente"

C18_NoEncontrada ==
    [][\A s \in Sesiones, id \in 1..MaxId :
        (Finalizar(s, id, NoEntrega) /\ FilaPorId(id) = NoFila) =>
            /\ RouterFinalizar(ses'[s].status) = 404
            /\ participaciones' = participaciones
            /\ resultados' = resultados]_vars

\* C19: the resultados row of a finished attempt counts the attempt's
\* answered questions as total, the answers that select the question's
\* opcion_correcta as correct (open answers never), so 0 <= correct <= total,
\* has porcentaje = correct * 100 / total to two decimals, and carries the
\* attempt's tiempo_total.
C19_ResultadoCorrecto ==
    \A r \in resultados :
        \E p \in participaciones :
            LET rs == p.respuestas_usuario
                total == Len(rs) + Len(p.respuestas_abiertas)
                buenas == Cardinality({ i \in 1..Len(rs) :
                    /\ Preguntas[rs[i].id_pregunta].tipo_pregunta # "abierta"
                    /\ rs[i].respuesta_seleccionada
                            = Preguntas[rs[i].id_pregunta].opcion_correcta })
            IN  /\ p.id_participacion = r.id_participacion
                /\ p.estado = "finalizado"
                /\ r.total_preguntas = total
                /\ r.respuestas_correctas = buenas
                /\ 0 <= r.respuestas_correctas
                /\ r.respuestas_correctas <= r.total_preguntas
                /\ 2 * (r.porcentaje_acierto * total - 10000 * buenas) <= total
                /\ 2 * (10000 * buenas - r.porcentaje_acierto * total) < total
                /\ r.tiempo_total = p.tiempo_total

\* C20: the ranking lists the results that match its filters, ordered by
\* correct answers descending and, among equal counts, by elapsed time
\* ascending; ranking is the position, so of two rows with equal counts the
\* one with the smaller time has the smaller ranking and the first has 1.
C20_RankingOrdenado ==
    informe.hecho =>
        LET F == informe.filas
            M == Coincidentes(informe.grupo_id, informe.numero_intento)
        IN  /\ Len(F) = Cardinality(M)
            /\ { <<F[i].cedula, F[i].respuestas_correctas, ParseTiempo(F[i].tiempo_juego)>> :
                    i \in 1..Len(F) }
                 = { <<pr[1].cedula, pr[2].respuestas_correctas, pr[2].tiempo_total>> :
                    pr \in M }
            /\ \A i, j \in 1..Len(F) :
                 i < j =>
                    \/ F[i].respuestas_correctas > F[j].respuestas_correctas
                    \/ /\ F[i].respuestas_correctas = F[j].respuestas_correctas
                       /\ ParseTiempo(F[i].tiempo_juego) <= ParseTiempo(F[j].tiempo_juego)
            /\ \A i, j \in 1..Len(F) :
                 (/\ F[i].respuestas_correctas = F[j].respuestas_correctas
                  /\ ParseTiempo(F[i].tiempo_juego) < ParseTiempo(F[j].tiempo_juego)) =>
                    F[i].ranking < F[j].ranking
            /\ F # << >> => F[1].ranking = 1

\* A ranking of three rows: two with equal counts and different times, and
\* one with fewer correct answers and the smallest time.
C20_Witness ==
    /\ informe.hecho
    /\ Len(informe.filas) = 3
    /\ informe.filas[1].respuestas_correctas = informe.filas[2].respuestas_correctas
    /\ informe.filas[1].tiempo_juego # informe.filas[2].tiempo_juego
    /\ informe.filas[3].respuestas_correctas < informe.filas[2].respuestas_correctas
    /\ ParseTiempo(informe.filas[3].tiempo_juego) < ParseTiempo(informe.filas[2].tiempo_juego)

\* C21: the ranking numbers are a dense rank from 1: the first row has 1,
\* a row with the same (respuestas_correctas, tiempo_juego) as the row
\* before it has the same ranking, and any other row has the ranking of
\* the row before it plus 1.
C21_RankingDenso ==
    informe.hecho =>
        LET F == informe.filas
            Par(i) == <<F[i].respuestas_correctas, F[i].tiempo_juego>>
        IN  /\ F # << >> => F[1].ranking = 1
            /\ \A i \in 1..(Len(F) - 1) :
                 F[i + 1].ranking = IF Par(i + 1) = Par(i) THEN F[i].ranking
                                    ELSE F[i].ranking + 1

\* C22: in every state every stored group has fecha_inicio < fecha_cierre,
\* max_intentos >= 1 and cooldown >= 0; a create or an update whose row
\* would break one of these, an update that gives only one of the two dates
\* included, is rejected and leaves the stored groups as they were.
C22_GrupoValido ==
    [][/\ \A g \in DOMAIN grupos' :
            /\ grupos'[g].fecha_inicio < grupos'[g].fecha_cierre
            /\ grupos'[g].max_intentos >= 1
            /\ grupos'[g].cooldown >= 0
       /\ \A s \in Sesiones :
            ses'[s].op = "actualizar_grupo" =>
                \A g \in DOMAIN grupos, fi, fc \in Fechas \cup {NULL} :
                    (/\ ~(GrupoActualizado(grupos[g], fi, fc).fecha_inicio
                            < GrupoActualizado(grupos[g], fi, fc).fecha_cierre)
                     /\ ActualizarGrupo(s, g, fi, fc)) =>
                        /\ ses'[s].status \notin {200, 201}
                        /\ grupos' = grupos
       /\ \A s \in Sesiones :
            ses'[s].op = "crear_grupo" =>
                \A ev \in EventoIds, fi, fc \in Fechas :
                    (~(fi < fc) /\ CrearGrupo(s, ev, fi, fc)) =>
                        /\ ses'[s].status \notin {200, 201}
                        /\ grupos' = grupos]_vars

\* An update that gave one date only, rejected by the constraint at its
\* commit, a second group stored by a create.
C22_Witness ==
    \E s \in Sesiones :
        /\ ses[s].pc = "done" /\ ses[s].op = "actualizar_grupo" /\ ses[s].status = 400
        /\ ses[s].detail = "GRUPO_NOMBRE_DUPLICADO"
        /\ Cardinality(DOMAIN grupos) = 2

\* C23: the listing of the active groups for a time (the clock when none is
\* given) and an optional event returns exactly the groups with
\* fecha_inicio <= time <= fecha_cierre, of that event when one is given;
\* and a join at the time of the clock passes its window check exactly for
\* the groups that the listing for that time holds.
C23_ActivosComoJoin ==
    [][\A s \in Sesiones :
        /\ ses'[s].op = "grupos_activos" =>
             \A fecha \in Fechas \cup {NULL}, ev \in EventoIds \cup {NULL} :
                ListarGruposActivos(s, fecha, ev) =>
                    LET at == IF fecha = NULL THEN now ELSE fecha
                        F == ses'[s].lista
                    IN  /\ { F[i] : i \in 1..Len(F) }
                              = { g \in DOMAIN grupos :
                                    /\ grupos[g].fecha_inicio <= at
                                    /\ at <= grupos[g].fecha_cierre
                                    /\ ev # NULL => grupos[g].id_evento = ev }
                        /\ \A i, j \in 1..Len(F) : i # j => F[i] # F[j]
        /\ ses'[s].op = "gestionar" =>
             \A nombre \in Nombres, cedula \in Cedulas, g \in DOMAIN grupos :
                Gestionar(s, nombre, cedula, g) =>
                    (ses'[s].pc = "j_proc" <=> g \in GruposActivos(now, NULL))]_vars

\* A listing that holds a group whose window is two consecutive instants,
\* so asked for one of its ends, and leaves another stored group out.
C23_Witness ==
    \E s \in Sesiones :
        /\ ses[s].pc = "done" /\ ses[s].op = "grupos_activos"
        /\ \E i \in 1..Len(ses[s].lista) :
              /\ ses[s].lista[i] \in DOMAIN grupos
              /\ grupos[ses[s].lista[i]].fecha_cierre
                    = grupos[ses[s].lista[i]].fecha_inicio + 1
        /\ \E g \in DOMAIN grupos : \A i \in 1..Len(ses[s].lista) : ses[s].lista[i] # g

SinHuerfanos ==
    /\ \A p \in participaciones :
        /\ \E u \in usuarios : u.cedula = p.cedula
        /\ p.id_grupo \in DOMAIN grupos
    /\ \A r \in resultados :
        \E p \in participaciones : p.id_participacion = r.id_participacion
    /\ \A g \in DOMAIN grupos : grupos[g].id_evento \in eventos

\* C25: after any sequence of creates and deletes (of an event, a group, a
\* user, an attempt) every attempt references a stored user and a stored
\* group and every result a stored attempt; a delete of a user or of a
\* group leaves no attempt of it and no result of such an attempt, and the
\* attempts of the others with their results stay.
C25_Cascada ==
    [][/\ SinHuerfanos'
       /\ \A s \in Sesiones :
            /\ (ses'[s].op = "eliminar_usuario" /\ ses'[s].status = 204) =>
                 \A cedula \in Cedulas :
                    EliminarUsuario(s, cedula) =>
                        /\ \A p \in participaciones' : p.cedula # cedula
                        /\ \A r \in resultados' : \A p \in participaciones :
                              p.cedula = cedula => r.id_participacion # p.id_participacion
                        /\ \A p \in participaciones :
                              p.cedula # cedula => p \in participaciones'
                        /\ \A r \in resultados : \A p \in participaciones :
                              (p.cedula # cedula /\ r.id_participacion = p.id_participacion)
                                  => r \in resultados'
            /\ (ses'[s].op = "eliminar_grupo" /\ ses'[s].status = 204) =>
                 \A g \in DOMAIN grupos :
                    EliminarGrupo(s, g) =>
                        /\ \A p \in participaciones' : p.id_grupo # g
                        /\ \A r \in resultados' : \A p \in participaciones :
                              p.id_grupo = g => r.id_participacion # p.id_participacion
                        /\ \A p \in participaciones :
                              p.id_grupo # g => p \in participaciones'
                        /\ \A r \in resultados : \A p \in participaciones :
                              (p.id_grupo # g /\ r.id_participacion = p.id_participacion)
                                  => r \in resultados']_vars

\* Two users with an attempt each, one of them finished with its result:
\* what a delete of a user, a group or an event finds.
C25_Witness ==
    /\ \E p, q \in participaciones : p.cedula # q.cedula /\ p.estado = "finalizado"
    /\ resultados # {}
    /\ \E s \in Sesiones : ses[s].pc = "done" /\ ses[s].status = 204

\* C26: after any creates and updates of questions, every stored question
\* has opcion_correcta set exactly when it is single-choice, its options
\* have the orden 1..n with n <= 4, and a set opcion_correcta is the orden
\* of one of its options.
C26_PreguntaCoherente ==
    \A id \in DOMAIN preguntas :
        LET q == preguntas[id]
        IN  /\ (q.opcion_correcta # NULL) <=> (q.tipo_pregunta = "opcion_unica")
            /\ q.ordenes = 1..Cardinality(q.ordenes)
            /\ Cardinality(q.ordenes) <= 4
            /\ q.opcion_correcta # NULL => q.opcion_correcta \in q.ordenes

\* C27: a finalize stores every answer to an open question in
\* respuestas_abiertas, as (id_pregunta, respuesta_abierta), and every
\* answer to a single-choice question in respuestas_usuario, as (id_pregunta,
\* respuesta_seleccionada); no answer is in both and none is lost.
C27_ParticionPorTipo ==
    [][\A s \in Sesiones :
        (ses[s].pc = "f_upd" /\ ses'[s].pc = "done") =>
            \A p \in participaciones' :
                p.id_participacion = ses[s].id =>
                    LET rs == ses[s].entrega.respuestas
                        U == p.respuestas_usuario
                        A == p.respuestas_abiertas
                        EnU(r) == \E k \in 1..Len(U) :
                                    /\ U[k].id_pregunta = r.id_pregunta
                                    /\ U[k].respuesta_seleccionada = r.respuesta_seleccionada
                        EnA(r) == \E k \in 1..Len(A) : A[k].id_pregunta = r.id_pregunta
                    IN  /\ Len(U) + Len(A) = Len(rs)
                        /\ \A i \in 1..Len(rs) :
                             IF Preguntas[rs[i].id_pregunta].tipo_pregunta = "abierta"
                             THEN EnA(rs[i]) /\ ~EnU(rs[i])
                             ELSE EnU(rs[i]) /\ ~EnA(rs[i])]_vars

\* C28: finished is absorbing: a step leaves every finished attempt exactly as
\* it was (state, answers, elapsed time, finished_at, attempt number, user and
\* group), unless the step deletes it.
C28_FinalizadoAbsorbente ==
    [][\A p \in participaciones :
        p.estado = "finalizado" =>
            \/ p \in participaciones'
            \/ \A q \in participaciones' : q.id_participacion # p.id_participacion]_vars

C30_IntentosAcotados ==
    \A p \in participaciones :
        /\ p.numero_intento >= 1
        /\ p.numero_intento <= grupos[p.id_grupo].max_intentos
        /\ Cardinality(FilasDe(p.cedula, p.id_grupo)) <= grupos[p.id_grupo].max_intentos

\* The last allowed attempt of a group is stored, in a group whose closing
\* date an update has moved.
C30_Witness ==
    \E p \in participaciones :
        /\ p.numero_intento = MaxIntentos
        /\ grupos[p.id_grupo].max_intentos = MaxIntentos
        /\ grupos[p.id_grupo].fecha_cierre = MaxTime

\* ============================================================ specification
Next ==
    \/ Tick
    \/ \E s \in Sesiones, nombre \in Nombres, cedula \in gente, g \in GrupoIdsPedidos :
          Gestionar(s, nombre, cedula, g)
    \/ \E s \in Sesiones : ProcLeer(s)
    \/ \E s \in Sesiones : ProcInsertar(s)
    \/ \E s \in Sesiones : SvcCommit(s)
    \/ \E s \in Sesiones, id \in 1..MaxId, e \in Entregas : Finalizar(s, id, e)
    \/ \E s \in Sesiones : FinUpdate(s)
    \/ \E s \in Sesiones, id \in 1..MaxId : Eliminar(s, id)

Spec == Init /\ [][Next]_vars

SpecSec == InitSec /\ [][Next]_vars

\* The same requests with the finalize entering through its router and the
\* token it requires.
NextHttp ==
    \/ Tick
    \/ \E s \in Sesiones, nombre \in Nombres, cedula \in gente, g \in GrupoIdsPedidos :
          Gestionar(s, nombre, cedula, g)
    \/ \E s \in Sesiones : ProcLeer(s)
    \/ \E s \in Sesiones : ProcInsertar(s)
    \/ \E s \in Sesiones : SvcCommit(s)
    \/ \E s \in Sesiones, tok \in Tokens, id \in 1..MaxId, e \in Cuerpos :
          FinalizarHttp(s, tok, id, e)
    \/ \E s \in Sesiones : FinUpdate(s)
    \/ \E s \in Sesiones, id \in 1..MaxId : Eliminar(s, id)

SpecHttp == InitHttp /\ [][NextHttp]_vars

\* One request at a time, of one person, over groups that are created and
\* updated between the requests; no group to begin with.
InitGrupos ==
    /\ now = 0
    /\ grupos = << >>
    /\ usuarios = {}
    /\ eventos = EventoIds
    /\ preguntas = PreguntasIniciales
    /\ participaciones = {}
    /\ next_id = 1
    /\ ses = [s \in Sesiones |-> SesInicial]
    /\ resultados = {}
    /\ informe = NoInforme
    /\ activas = {"s1"}
    /\ gente = {"1001"}

NextGrupos ==
    \/ Tick
    \/ \E s \in Sesiones, nombre \in Nombres, cedula \in gente, g \in 1..MaxGrupos :
          Gestionar(s, nombre, cedula, g)
    \/ \E s \in Sesiones : ProcLeer(s)
    \/ \E s \in Sesiones : ProcInsertar(s)
    \/ \E s \in Sesiones : SvcCommit(s)
    \/ \E s \in Sesiones : CrearEvento(s)
    \/ \E s \in Sesiones, ev \in EventoIds \cup {9}, fi, fc \in Fechas :
          CrearGrupo(s, ev, fi, fc)
    \/ \E s \in Sesiones, g \in 1..MaxGrupos, fi, fc \in Fechas \cup {NULL} :
          ActualizarGrupo(s, g, fi, fc)
    \/ \E s \in Sesiones, fecha \in Fechas \cup {NULL}, ev \in EventoIds \cup {NULL} :
          ListarGruposActivos(s, fecha, ev)

SpecGrupos == InitGrupos /\ [][NextGrupos]_vars

\* Two requests at a time, of either person under either name.
InitUpsert ==
    /\ InitStore
    /\ activas = Sesiones
    /\ gente = Cedulas

NextUpsert ==
    \/ Tick
    \/ \E s \in Sesiones, nombre \in NombresUpsert, cedula \in gente, g \in GrupoIdsPedidos :
          Gestionar(s, nombre, cedula, g)
    \/ \E s \in Sesiones : ProcLeer(s)
    \/ \E s \in Sesiones : ProcInsertar(s)
    \/ \E s \in Sesiones : SvcCommit(s)

SpecUpsert == InitUpsert /\ [][NextUpsert]_vars

\* One request at a time, of either person, the events, groups, users and
\* attempts deleted between the requests; no group to begin with, and all
\* of it within one instant of the clock.
InitAdmin ==
    /\ now = 0
    /\ grupos = << >>
    /\ usuarios = {}
    /\ eventos = EventoIds
    /\ preguntas = PreguntasIniciales
    /\ participaciones = {}
    /\ next_id = 1
    /\ ses = [s \in Sesiones |-> SesInicial]
    /\ resultados = {}
    /\ informe = NoInforme
    /\ activas = {"s1"}
    /\ gente = Cedulas

NextAdmin ==
    \/ \E s \in Sesiones, nombre \in Nombres, cedula \in gente, g \in 1..MaxGrupos :
          Gestionar(s, nombre, cedula, g)
    \/ \E s \in Sesiones : ProcLeer(s)
    \/ \E s \in Sesiones : ProcInsertar(s)
    \/ \E s \in Sesiones : SvcCommit(s)
    \/ \E s \in Sesiones, id \in 1..MaxId : Finalizar(s, id, EntregaAdmin)
    \/ \E s \in Sesiones : FinUpdate(s)
    \/ \E s \in Sesiones, id \in 1..MaxId : Eliminar(s, id)
    \/ \E s \in Sesiones : CrearEvento(s)
    \/ \E s \in Sesiones, ev \in EventoIds : CrearGrupo(s, ev, 0, MaxTime)
    \/ \E s \in Sesiones, g \in 1..MaxGrupos : EliminarGrupo(s, g)
    \/ \E s \in Sesiones, ev \in EventoIds : EliminarEvento(s, ev)
    \/ \E s \in Sesiones, cedula \in gente : EliminarUsuario(s, cedula)

SpecAdmin == InitAdmin /\ [][NextAdmin]_vars

\* One request at a time over the questions.
InitPreguntas ==
    /\ InitStore
    /\ activas = {"s1"}
    /\ gente = {}

NextPreguntas ==
    \/ \E s \in Sesiones, tipo \in {"abierta", "opcion_unica"}, lista \in ListasDeOrdenes,
           opcion \in OpcionesPedidas :
          CrearPregunta(s, tipo, lista, opcion)
    \/ \E s \in Sesiones, id \in DOMAIN Preguntas \cup {9}, lista \in ListasDeOrdenes,
           opcion \in OpcionesPedidas :
          ActualizarPregunta(s, id, lista, opcion)

SpecPreguntas == InitPreguntas /\ [][NextPreguntas]_vars

\* Two concurrent sessions of one person: joins, finalizes of one body,
\* deletions, the clock, and updates of the groups' closing date.
NextIntentos ==
    \/ Tick
    \/ \E s \in Sesiones, nombre \in Nombres, cedula \in gente, g \in GrupoIdsPedidos :
          Gestionar(s, nombre, cedula, g)
    \/ \E s \in Sesiones : ProcLeer(s)
    \/ \E s \in Sesiones : ProcInsertar(s)
    \/ \E s \in Sesiones : SvcCommit(s)
    \/ \E s \in Sesiones, id \in 1..MaxId : Finalizar(s, id, EntregaAdmin)
    \/ \E s \in Sesiones : FinUpdate(s)
    \/ \E s \in Sesiones, id \in 1..MaxId : Eliminar(s, id)
    \/ \E s \in Sesiones, g \in GrupoIds, fc \in Fechas \cup {NULL} :
          ActualizarGrupo(s, g, NULL, fc)

SpecIntentos == Init /\ [][NextIntentos]_vars

\* The ranking asked, with or without its filters, over a store of finished attempts.
NextRank ==
    \E grupo_id \in {NULL} \cup GrupoIdsPedidos, numero_intento \in {NULL} \cup (1..MaxIntentos) :
        RankingUsuarios(grupo_id, numero_intento)

SpecRank == InitRank /\ [][NextRank]_vars

====
